---- MODULE Spec2Model ----
(***************************************************************************)
(* A model of the two stateful parts of the projectx Go client:            *)
(*                                                                         *)
(*   SignalRClient      the streaming connection manager: the isConnected  *)
(*                      flag, the subscriptions map, the mutex, and the    *)
(*                      Subscribe / Unsubscribe / Stop operations and the  *)
(*                      transport callbacks (OnConnected, OnDisconnected,  *)
(*                      OnGatewayQuote/Trade/Depth);                       *)
(*   MarketDataManager  the per-contract bar aggregator (OnQuote, OnTrade, *)
(*                      OnDepth, initializeNewBar, closeCurrentBar).       *)
(*                                                                         *)
(* Spec is the connection manager run by two application threads and the   *)
(* transport goroutine; DispatchSpec is the connection manager run by one  *)
(* application thread and a transport goroutine that also delivers inbound *)
(* messages; RelaySpec is the relay of inbound messages alone, with the    *)
(* client started, reconnected and stopped around it; LiveSpec is Spec     *)
(* with the progress the goroutines make; BarSpec is one aggregator fed    *)
(* with ticks.                                                             *)
(***************************************************************************)
EXTENDS Integers, Sequences, FiniteSets, TLC

(***************************************************************************)
(* Bounds of the model.                                                    *)
(***************************************************************************)
\* how many times the transport may lose the connection
MaxReconnects == 1
\* how many inbound push messages the transport may deliver
MaxMsgs == 2
\* the last instant of the aggregator's clock
MaxTime == 5
\* the longest bar period an aggregator is constructed with, in clock units
MaxPeriod == 3
\* how many calls the aggregator receives
MaxTicks == 3

(***************************************************************************)
(* The connection manager: threads, contracts and wire methods.            *)
(***************************************************************************)
Contracts == {"A", "B"}
AppThreads == {"app1", "app2"}
Transport == "transport"
Threads == AppThreads \cup {Transport}
NoThread == "none"
NoContract == "-"

VARIABLES
    \* SignalRClient fields
    isConnected,      \* c.isConnected
    subscriptions,    \* the keys of c.subscriptions
    reconnectCount,   \* c.reconnectCount
    cancelled,        \* c.ctx has been cancelled by c.cancel()
    mutex,            \* the thread that holds c.mutex, or NoThread
    \* the signalr client and the link under it
    clientState,      \* "created", "running" (after Start), "stopped" (after client.Stop)
    link,             \* "down" or "up": the transport's own view of the connection
    \* the position of every thread
    pc,               \* where the thread is in the operation it runs
    op,               \* the outer operation the thread runs
    arg,              \* the contractID of the Subscribe/unsubscribe call in progress
    visited,          \* the keys a range loop of the thread has produced so far
    rangeBase,        \* the keys that were in the map when the range loop began
    sentBy,           \* the methods sent by the Subscribe/unsubscribe call in progress
    lastRet,          \* the call that returned in the last step (NoRet if none did)
    \* observations
    stopReturned,     \* a call of Stop has returned
    delivered,        \* the inbound messages the transport has handed to the receiver
    payload,          \* the data argument of the OnGateway call a goroutine runs
    handled,          \* the calls made on the registered MarketDataHandler
    \* MarketDataManager fields and what surrounds one aggregator
    currentBar,       \* m.currentBar (NoBar for nil)
    lastTradeTime,    \* m.lastTradeTime
    barPeriod,        \* m.barPeriod
    clock,            \* the last value time.Now() returned
    emitted,          \* the bars the callback has received, oldest first
    applied,          \* the valid ticks applied to the current bar, the opening one first
    lastTick,         \* the call the aggregator received in the last step, and what it did
    nTicks,           \* how many calls the aggregator has received
    entrySubs         \* the keys OnConnected found in the map when it set isConnected

connVars == <<isConnected, subscriptions, reconnectCount, cancelled, mutex,
              clientState, link, pc, op, arg, visited, rangeBase, sentBy, lastRet,
              stopReturned, delivered, payload, handled,
              entrySubs>>
barVars == <<currentBar, lastTradeTime, barPeriod, clock, emitted, applied, lastTick,
             nTicks>>
vars == <<connVars, barVars>>

\* lastRet while the last step returned from no call
NoRet == [call |-> "none", by |-> "none", id |-> NoContract, ids |-> {},
          result |-> "none", sent |-> <<>>, acks |-> 0, subsBefore |-> {},
          connBefore |-> FALSE, entry |-> {}]

\* the record of a call that returns in this step: the call, the operation that made
\* it, its contract (or the contracts its loop went through), its result, the methods
\* it sent, how many of them the server answered with nil, the subscriptions and the
\* isConnected flag the step found and, for OnConnected, the subscriptions it found
\* when it set isConnected
Ret(call, by, id, ids, result, sent, acks) ==
    [call |-> call, by |-> by, id |-> id, ids |-> ids, result |-> result, sent |-> sent,
     acks |-> acks, subsBefore |-> subscriptions, connBefore |-> isConnected,
     entry |-> IF call = "OnConnected" THEN entrySubs ELSE {}]

\* the three registrations of one Subscribe call, in the order the code sends them
SubscribeMethods ==
    <<"SubscribeContractQuotes", "SubscribeContractTrades", "SubscribeContractMarketDepth">>

\* the three deregistrations of one unsubscribe call, in the order the code sends them
UnsubscribeMethods ==
    <<"UnsubscribeContractQuotes", "UnsubscribeContractTrades",
      "UnsubscribeContractMarketDepth">>

\* what <-ch can yield for a client.Send: nil (TRUE) or an error (FALSE); a client
\* that was stopped has its context cancelled and completes no invocation
ServerAnswers == IF clientState = "stopped" THEN {FALSE} ELSE {TRUE, FALSE}

\* the error a failed Send is wrapped in
SendError(method) == "failed: " \o method

(***************************************************************************)
(* Returning from a call: lastRet records it, and the thread goes back to  *)
(* the loop that made the call (Stop, OnConnected) or becomes idle.        *)
(***************************************************************************)
Returned(t, call, result, acks) ==
    /\ lastRet' = Ret(call, op[t], arg[t], {}, result, sentBy[t], acks)
    /\ sentBy' = [sentBy EXCEPT ![t] = <<>>]
    /\ arg' = [arg EXCEPT ![t] = NoContract]
    /\ pc' = [pc EXCEPT ![t] = CASE op[t] = "Stop" -> "Stop_range"
                                 [] op[t] = "OnConnected" -> "OnConnected_range"
                                 [] OTHER -> "idle"]
    /\ op' = [op EXCEPT ![t] = IF op[t] \in {"Stop", "OnConnected"} THEN op[t] ELSE "none"]

\* c.mutex is unlocked by the deferred Unlock of Subscribe and Unsubscribe; the
\* unsubscribe calls of Stop run inside Stop's critical section
UnlockOnReturn(t) ==
    mutex' = IF op[t] = "Stop" THEN mutex ELSE NoThread

(***************************************************************************)
(* Start                                                                   *)
(***************************************************************************)
Start(t) ==
    /\ pc[t] = "idle"
    /\ clientState = "created"
    /\ clientState' = "running"
    /\ lastRet' = NoRet
    /\ UNCHANGED <<isConnected, subscriptions, reconnectCount, cancelled, mutex, link,
                   pc, op, arg, visited, rangeBase, sentBy, stopReturned, delivered,
                   payload, handled, entrySubs, barVars>>

(***************************************************************************)
(* Subscribe                                                               *)
(***************************************************************************)
CallSubscribe(t, id) ==
    /\ pc[t] = "idle"
    /\ pc' = [pc EXCEPT ![t] = "Subscribe"]
    /\ op' = [op EXCEPT ![t] = "Subscribe"]
    /\ arg' = [arg EXCEPT ![t] = id]
    /\ sentBy' = [sentBy EXCEPT ![t] = <<>>]
    /\ lastRet' = NoRet
    /\ UNCHANGED <<isConnected, subscriptions, reconnectCount, cancelled, mutex,
                   clientState, link, visited, rangeBase, stopReturned, delivered,
                   payload, handled, entrySubs, barVars>>

\* Subscribe without the isConnected check: the first Send goes out at once
Subscribe_NoCheck(t) ==
    /\ pc[t] = "Subscribe"
    /\ mutex = NoThread
    /\ mutex' = t
    /\ sentBy' = [sentBy EXCEPT ![t] = <<SubscribeMethods[1]>>]
    /\ pc' = [pc EXCEPT ![t] = "Subscribe_wait"]
    /\ lastRet' = NoRet
    /\ UNCHANGED <<op, arg, isConnected, subscriptions, reconnectCount, cancelled,
                   clientState, link, visited, rangeBase, stopReturned, delivered,
                   payload, handled, entrySubs, barVars>>

\* Subscribe without c.mutex.Lock(): the check and the first Send go ahead whoever
\* holds the mutex
Subscribe_Unlocked(t) ==
    /\ pc[t] = "Subscribe"
    /\ IF ~isConnected
       THEN /\ Returned(t, "Subscribe", "not connected", 0)
            /\ UNCHANGED mutex
       ELSE /\ UNCHANGED mutex
            /\ sentBy' = [sentBy EXCEPT ![t] = <<SubscribeMethods[1]>>]
            /\ pc' = [pc EXCEPT ![t] = "Subscribe_wait"]
            /\ lastRet' = NoRet
            /\ UNCHANGED <<op, arg>>
    /\ UNCHANGED <<isConnected, subscriptions, reconnectCount, cancelled, clientState,
                   link, visited, rangeBase, stopReturned, delivered, payload, handled,
                   entrySubs, barVars>>

\* c.mutex.Lock(); if !c.isConnected { return error }; else the first Send
Subscribe(t) ==
    /\ pc[t] = "Subscribe"
    /\ mutex = NoThread
    /\ IF ~isConnected
       THEN /\ Returned(t, "Subscribe", "not connected", 0)
            /\ UNCHANGED mutex
       ELSE /\ mutex' = t
            /\ sentBy' = [sentBy EXCEPT ![t] = <<SubscribeMethods[1]>>]
            /\ pc' = [pc EXCEPT ![t] = "Subscribe_wait"]
            /\ lastRet' = NoRet
            /\ UNCHANGED <<op, arg>>
    /\ UNCHANGED <<isConnected, subscriptions, reconnectCount, cancelled, clientState,
                   link, visited, rangeBase, stopReturned, delivered, payload, handled,
                   entrySubs, barVars>>

\* SubscribeAnswer with the error of the market depth registration not checked: the
\* contract is recorded whatever the third answer is
SubscribeAnswer_DepthUnchecked(t, ok) ==
    /\ pc[t] = "Subscribe_wait"
    /\ ok \in ServerAnswers
    /\ LET n == Len(sentBy[t]) IN
       IF n = Len(SubscribeMethods)
       THEN /\ subscriptions' = subscriptions \cup {arg[t]}
            /\ Returned(t, "Subscribe", "ok", IF ok THEN n ELSE n - 1)
            /\ mutex' = NoThread
       ELSE IF ~ok
       THEN /\ Returned(t, "Subscribe", SendError(SubscribeMethods[n]), n - 1)
            /\ mutex' = NoThread
            /\ UNCHANGED subscriptions
       ELSE /\ sentBy' = [sentBy EXCEPT ![t] = Append(@, SubscribeMethods[n + 1])]
            /\ lastRet' = NoRet
            /\ UNCHANGED <<subscriptions, mutex, pc, op, arg>>
    /\ UNCHANGED <<isConnected, reconnectCount, cancelled, clientState, link, visited,
                   rangeBase, stopReturned, delivered, payload, handled, entrySubs,
                   barVars>>

\* err := <-ch for the Send in flight: an error returns, nil goes on to the next
\* Send, and after the third the contract is recorded
SubscribeAnswer(t, ok) ==
    /\ pc[t] = "Subscribe_wait"
    /\ ok \in ServerAnswers
    /\ LET n == Len(sentBy[t]) IN
       IF ~ok
       THEN /\ Returned(t, "Subscribe", SendError(SubscribeMethods[n]), n - 1)
            /\ mutex' = NoThread
            /\ UNCHANGED subscriptions
       ELSE IF n < Len(SubscribeMethods)
       THEN /\ sentBy' = [sentBy EXCEPT ![t] = Append(@, SubscribeMethods[n + 1])]
            /\ lastRet' = NoRet
            /\ UNCHANGED <<subscriptions, mutex, pc, op, arg>>
       ELSE /\ subscriptions' = subscriptions \cup {arg[t]}
            /\ Returned(t, "Subscribe", "ok", n)
            /\ mutex' = NoThread
    /\ UNCHANGED <<isConnected, reconnectCount, cancelled, clientState, link, visited,
                   rangeBase, stopReturned, delivered, payload, handled, entrySubs,
                   barVars>>

(***************************************************************************)
(* unsubscribe, Unsubscribe                                                *)
(***************************************************************************)
\* the head of unsubscribe(contractID), run by a thread that holds c.mutex:
\* if !c.isConnected { return error }; else the first Send
unsubscribe(t, id) ==
    IF ~isConnected
    THEN /\ lastRet' = Ret("unsubscribe", op[t], id, {}, "not connected", <<>>, 0)
         /\ sentBy' = [sentBy EXCEPT ![t] = <<>>]
         /\ arg' = [arg EXCEPT ![t] = NoContract]
         /\ pc' = [pc EXCEPT ![t] = IF op[t] = "Stop" THEN "Stop_range" ELSE "idle"]
         /\ op' = [op EXCEPT ![t] = IF op[t] = "Stop" THEN "Stop" ELSE "none"]
         /\ UnlockOnReturn(t)
    ELSE /\ sentBy' = [sentBy EXCEPT ![t] = <<UnsubscribeMethods[1]>>]
         /\ arg' = [arg EXCEPT ![t] = id]
         /\ pc' = [pc EXCEPT ![t] = "unsubscribe_wait"]
         /\ mutex' = t
         /\ lastRet' = NoRet
         /\ UNCHANGED <<op>>

\* err := <-ch for the Send in flight of unsubscribe: an error returns, nil goes on
\* to the next Send, and after the third the contract is deleted from the map (a
\* deleted key is one no range in progress produces any more)
unsubscribeAnswer(t, ok) ==
    /\ pc[t] = "unsubscribe_wait"
    /\ ok \in ServerAnswers
    /\ LET n == Len(sentBy[t]) IN
       IF ~ok
       THEN /\ Returned(t, "unsubscribe", SendError(UnsubscribeMethods[n]), n - 1)
            /\ UnlockOnReturn(t)
            /\ UNCHANGED subscriptions
       ELSE IF n < Len(UnsubscribeMethods)
       THEN /\ sentBy' = [sentBy EXCEPT ![t] = Append(@, UnsubscribeMethods[n + 1])]
            /\ lastRet' = NoRet
            /\ UNCHANGED <<subscriptions, mutex, pc, op, arg>>
       ELSE /\ subscriptions' = subscriptions \ {arg[t]}
            /\ Returned(t, "unsubscribe", "ok", n)
            /\ UnlockOnReturn(t)
    /\ rangeBase' = [u \in Threads |-> rangeBase[u] \ (subscriptions \ subscriptions')]
    /\ UNCHANGED <<isConnected, reconnectCount, cancelled, clientState, link, visited,
                   stopReturned, delivered, payload, handled, entrySubs, barVars>>

CallUnsubscribe(t, id) ==
    /\ pc[t] = "idle"
    /\ pc' = [pc EXCEPT ![t] = "Unsubscribe"]
    /\ op' = [op EXCEPT ![t] = "Unsubscribe"]
    /\ arg' = [arg EXCEPT ![t] = id]
    /\ sentBy' = [sentBy EXCEPT ![t] = <<>>]
    /\ lastRet' = NoRet
    /\ UNCHANGED <<isConnected, subscriptions, reconnectCount, cancelled, mutex,
                   clientState, link, visited, rangeBase, stopReturned, delivered,
                   payload, handled, entrySubs, barVars>>

\* c.mutex.Lock(); defer c.mutex.Unlock(); return c.unsubscribe(contractID)
Unsubscribe(t) ==
    /\ pc[t] = "Unsubscribe"
    /\ mutex = NoThread
    /\ unsubscribe(t, arg[t])
    /\ UNCHANGED <<isConnected, subscriptions, reconnectCount, cancelled, clientState,
                   link, visited, rangeBase, stopReturned, delivered, payload, handled,
                   entrySubs, barVars>>

(***************************************************************************)
(* Stop                                                                    *)
(***************************************************************************)
CallStop(t) ==
    /\ pc[t] = "idle"
    /\ pc' = [pc EXCEPT ![t] = "Stop"]
    /\ op' = [op EXCEPT ![t] = "Stop"]
    /\ lastRet' = NoRet
    /\ UNCHANGED <<isConnected, subscriptions, reconnectCount, cancelled, mutex,
                   clientState, link, arg, visited, rangeBase, sentBy, stopReturned,
                   delivered, payload, handled, entrySubs, barVars>>

\* c.mutex.Lock(); the range over c.subscriptions begins
StopLock(t) ==
    /\ pc[t] = "Stop"
    /\ mutex = NoThread
    /\ mutex' = t
    /\ pc' = [pc EXCEPT ![t] = "Stop_range"]
    /\ visited' = [visited EXCEPT ![t] = {}]
    /\ rangeBase' = [rangeBase EXCEPT ![t] = subscriptions]
    /\ lastRet' = NoRet
    /\ UNCHANGED <<isConnected, subscriptions, reconnectCount, cancelled, clientState,
                   link, op, arg, sentBy, stopReturned, delivered, payload, handled,
                   entrySubs, barVars>>

\* one iteration of the range: the next key the map still holds, in any order, is
\* handed to unsubscribe; its error is logged and the loop goes on
StopRange(t, id) ==
    /\ pc[t] = "Stop_range"
    /\ id \in subscriptions \ visited[t]
    /\ visited' = [visited EXCEPT ![t] = @ \cup {id}]
    /\ unsubscribe(t, id)
    /\ UNCHANGED <<isConnected, subscriptions, reconnectCount, cancelled, clientState,
                   link, rangeBase, stopReturned, delivered, payload, handled,
                   entrySubs, barVars>>

\* the range is over: c.cancel(); c.isConnected = false; c.client.Stop(); return nil
\* (the deferred Unlock releases c.mutex)
StopFinish(t) ==
    /\ pc[t] = "Stop_range"
    /\ subscriptions \ visited[t] = {}
    /\ cancelled' = TRUE
    /\ isConnected' = FALSE
    /\ clientState' = "stopped"
    /\ mutex' = NoThread
    /\ stopReturned' = TRUE
    /\ lastRet' = Ret("Stop", "Stop", NoContract, visited[t], "ok", <<>>, 0)
    /\ pc' = [pc EXCEPT ![t] = "idle"]
    /\ op' = [op EXCEPT ![t] = "none"]
    /\ visited' = [visited EXCEPT ![t] = {}]
    /\ rangeBase' = [rangeBase EXCEPT ![t] = {}]
    /\ UNCHANGED <<subscriptions, reconnectCount, link, arg, sentBy, delivered,
                   payload, handled, entrySubs, barVars>>

(***************************************************************************)
(* IsConnected                                                             *)
(***************************************************************************)
\* c.mutex.RLock(); return c.isConnected: a read lock waits for the writer
IsConnected(t) ==
    /\ pc[t] = "idle"
    /\ mutex = NoThread
    /\ lastRet' = Ret("IsConnected", "IsConnected", NoContract, {},
                       IF isConnected THEN "true" ELSE "false", <<>>, 0)
    /\ UNCHANGED <<isConnected, subscriptions, reconnectCount, cancelled, mutex,
                   clientState, link, pc, op, arg, visited, rangeBase, sentBy,
                   stopReturned, delivered, payload, handled, entrySubs, barVars>>

(***************************************************************************)
(* The transport goroutine: it calls the receiver's methods one at a time, *)
(* and begins no call once the client was stopped; a call it has begun     *)
(* runs to its end.                                                        *)
(***************************************************************************)
CallOnConnected(t) ==
    /\ t = Transport
    /\ pc[t] = "idle"
    /\ clientState = "running"
    /\ link = "down"
    /\ link' = "up"
    /\ pc' = [pc EXCEPT ![t] = "OnConnected"]
    /\ op' = [op EXCEPT ![t] = "OnConnected"]
    /\ lastRet' = NoRet
    /\ UNCHANGED <<isConnected, subscriptions, reconnectCount, cancelled, mutex,
                   clientState, arg, visited, rangeBase, sentBy, stopReturned,
                   delivered, payload, handled, entrySubs, barVars>>

\* c.mutex.Lock(); c.isConnected = true; c.mutex.Unlock()
OnConnected(t) ==
    /\ pc[t] = "OnConnected"
    /\ mutex = NoThread
    /\ isConnected' = TRUE
    /\ entrySubs' = subscriptions
    /\ pc' = [pc EXCEPT ![t] = "OnConnected_for"]
    /\ lastRet' = NoRet
    /\ UNCHANGED <<subscriptions, reconnectCount, cancelled, mutex, clientState, link,
                   op, arg, visited, rangeBase, sentBy, stopReturned, delivered,
                   payload, handled, barVars>>

\* for contractID := range c.subscriptions: the range begins, c.mutex not held
OnConnectedFor(t) ==
    /\ pc[t] = "OnConnected_for"
    /\ visited' = [visited EXCEPT ![t] = {}]
    /\ rangeBase' = [rangeBase EXCEPT ![t] = subscriptions]
    /\ pc' = [pc EXCEPT ![t] = "OnConnected_range"]
    /\ lastRet' = NoRet
    /\ UNCHANGED <<isConnected, subscriptions, reconnectCount, cancelled, mutex,
                   clientState, link, op, arg, sentBy, stopReturned, delivered,
                   payload, handled, entrySubs, barVars>>

\* one iteration: the range produces a key the map holds now and has not produced
\* yet, and the body calls c.Subscribe(contractID)
OnConnectedRange(t, id) ==
    /\ pc[t] = "OnConnected_range"
    /\ id \in subscriptions \ visited[t]
    /\ visited' = [visited EXCEPT ![t] = @ \cup {id}]
    /\ arg' = [arg EXCEPT ![t] = id]
    /\ sentBy' = [sentBy EXCEPT ![t] = <<>>]
    /\ pc' = [pc EXCEPT ![t] = "Subscribe"]
    /\ lastRet' = NoRet
    /\ UNCHANGED <<isConnected, subscriptions, reconnectCount, cancelled, mutex,
                   clientState, link, op, rangeBase, stopReturned, delivered, payload,
                   handled, entrySubs, barVars>>

\* the range ends when it has produced every key that was in the map when it began
\* and is still there; a key created during the range may be skipped
OnConnectedReturn(t) ==
    /\ pc[t] = "OnConnected_range"
    /\ (subscriptions \cap rangeBase[t]) \subseteq visited[t]
    /\ lastRet' = Ret("OnConnected", "OnConnected", NoContract, visited[t], "ok", <<>>, 0)
    /\ pc' = [pc EXCEPT ![t] = "idle"]
    /\ op' = [op EXCEPT ![t] = "none"]
    /\ visited' = [visited EXCEPT ![t] = {}]
    /\ rangeBase' = [rangeBase EXCEPT ![t] = {}]
    /\ entrySubs' = {}
    /\ UNCHANGED <<isConnected, subscriptions, reconnectCount, cancelled, mutex,
                   clientState, link, arg, sentBy, stopReturned, delivered, payload,
                   handled, barVars>>

CallOnDisconnected(t) ==
    /\ t = Transport
    /\ pc[t] = "idle"
    /\ clientState = "running"
    /\ link = "up"
    /\ reconnectCount < MaxReconnects
    /\ link' = "down"
    /\ pc' = [pc EXCEPT ![t] = "OnDisconnected"]
    /\ op' = [op EXCEPT ![t] = "OnDisconnected"]
    /\ lastRet' = NoRet
    /\ UNCHANGED <<isConnected, subscriptions, reconnectCount, cancelled, mutex,
                   clientState, arg, visited, rangeBase, sentBy, stopReturned,
                   delivered, payload, handled, entrySubs, barVars>>

\* OnDisconnected that also forgets the subscriptions
OnDisconnected_Clears(t) ==
    /\ pc[t] = "OnDisconnected"
    /\ mutex = NoThread
    /\ isConnected' = FALSE
    /\ reconnectCount' = reconnectCount + 1
    /\ subscriptions' = {}
    /\ lastRet' = Ret("OnDisconnected", "OnDisconnected", NoContract, {}, "ok", <<>>, 0)
    /\ pc' = [pc EXCEPT ![t] = "idle"]
    /\ op' = [op EXCEPT ![t] = "none"]
    /\ UNCHANGED <<cancelled, mutex, clientState, link, arg, visited, rangeBase, sentBy,
                   stopReturned, delivered, payload, handled, entrySubs, barVars>>

\* c.mutex.Lock(); c.isConnected = false; c.reconnectCount++; c.mutex.Unlock()
OnDisconnected(t) ==
    /\ pc[t] = "OnDisconnected"
    /\ mutex = NoThread
    /\ isConnected' = FALSE
    /\ reconnectCount' = reconnectCount + 1
    /\ lastRet' = Ret("OnDisconnected", "OnDisconnected", NoContract, {}, "ok", <<>>, 0)
    /\ pc' = [pc EXCEPT ![t] = "idle"]
    /\ op' = [op EXCEPT ![t] = "none"]
    /\ UNCHANGED <<subscriptions, cancelled, mutex, clientState, link, arg, visited,
                   rangeBase, sentBy, stopReturned, delivered, payload, handled,
                   entrySubs, barVars>>

\* the thread has the answer to its third request coming: it is about to write
\* c.subscriptions (c.subscriptions[contractID] = true, or delete)
AboutToWrite(t) ==
    /\ pc[t] \in {"Subscribe_wait", "unsubscribe_wait"}
    /\ Len(sentBy[t]) = 3

\* the write of c.subscriptions by thread t meets the next step of the range of
\* OnConnected, which runs without c.mutex: a data race on the map, which the Go
\* runtime may end with "fatal error: concurrent map iteration and map write". The
\* process is gone: no goroutine takes a step any more.
RaceAbort(t) ==
    /\ t # Transport
    /\ AboutToWrite(t)
    /\ op[Transport] = "OnConnected"
    /\ pc[Transport] = "OnConnected_range"
    /\ pc' = [u \in Threads |-> "aborted"]
    /\ lastRet' = NoRet
    /\ UNCHANGED <<isConnected, subscriptions, reconnectCount, cancelled, mutex,
                   clientState, link, op, arg, visited, rangeBase, sentBy,
                   stopReturned, delivered, payload, handled, entrySubs, barVars>>

\* an inbound GatewayQuote / GatewayTrade / GatewayDepth invocation reaches the receiver
MessageKinds == {"Quote", "Trade", "Depth"}

\* the data maps an invocation may carry, and no data: no OnGateway call in progress
Payloads == {"d1", "d2"}
NoData == "-"

\* the transport calls OnGateway<kind>(contractID, data)
CallOnGateway(t, kind, id, data) ==
    /\ t = Transport
    /\ pc[t] = "idle"
    /\ clientState = "running"
    /\ link = "up"
    /\ Len(delivered) < MaxMsgs
    /\ delivered' = Append(delivered, [kind |-> kind, contractID |-> id, data |-> data])
    /\ payload' = [payload EXCEPT ![t] = data]
    /\ pc' = [pc EXCEPT ![t] = "OnGateway" \o kind]
    /\ op' = [op EXCEPT ![t] = "OnGateway" \o kind]
    /\ arg' = [arg EXCEPT ![t] = id]
    /\ lastRet' = NoRet
    /\ UNCHANGED <<isConnected, subscriptions, reconnectCount, cancelled, mutex,
                   clientState, link, visited, rangeBase, sentBy, stopReturned, handled,
                   entrySubs, barVars>>

\* Dispatch that forwards a depth event to the handler's OnQuote
Dispatch_DepthAsQuote(t, kind) ==
    /\ pc[t] = "OnGateway" \o kind
    /\ handled' = Append(handled, [kind |-> IF kind = "Depth" THEN "Quote" ELSE kind,
                                   contractID |-> arg[t], data |-> payload[t]])
    /\ payload' = [payload EXCEPT ![t] = NoData]
    /\ pc' = [pc EXCEPT ![t] = "idle"]
    /\ op' = [op EXCEPT ![t] = "none"]
    /\ arg' = [arg EXCEPT ![t] = NoContract]
    /\ lastRet' = NoRet
    /\ UNCHANGED <<isConnected, subscriptions, reconnectCount, cancelled, mutex,
                   clientState, link, visited, rangeBase, sentBy, stopReturned,
                   delivered, entrySubs, barVars>>

\* the body of the three OnGateway methods: the handler's method is called with the
\* contractID and the data, with no lock taken and no state of the client read
Dispatch(t, kind) ==
    /\ pc[t] = "OnGateway" \o kind
    /\ handled' = Append(handled, [kind |-> kind, contractID |-> arg[t],
                                   data |-> payload[t]])
    /\ payload' = [payload EXCEPT ![t] = NoData]
    /\ pc' = [pc EXCEPT ![t] = "idle"]
    /\ op' = [op EXCEPT ![t] = "none"]
    /\ arg' = [arg EXCEPT ![t] = NoContract]
    /\ lastRet' = NoRet
    /\ UNCHANGED <<isConnected, subscriptions, reconnectCount, cancelled, mutex,
                   clientState, link, visited, rangeBase, sentBy, stopReturned,
                   delivered, entrySubs, barVars>>

OnGatewayQuote(t) == Dispatch(t, "Quote")

OnGatewayTrade(t) == Dispatch(t, "Trade")

OnGatewayDepth(t) == Dispatch(t, "Depth")

(***************************************************************************)
(* The connection manager's specification.                                 *)
(***************************************************************************)
\* m.currentBar == nil
NoBar == [Time |-> -1, Open |-> 0, High |-> 0, Low |-> 0, Close |-> 0, Vol |-> 0]

\* lastTick while the last step was no call on the aggregator
NoTick == [kind |-> "none", did |-> "none", at |-> -1, a |-> 0, b |-> 0,
           before |-> NoBar, emittedBefore |-> 0]

\* NewSignalRClient: an empty map, not connected, the signalr client not started
ConnInit ==
    /\ isConnected = FALSE
    /\ subscriptions = {}
    /\ reconnectCount = 0
    /\ cancelled = FALSE
    /\ mutex = NoThread
    /\ clientState = "created"
    /\ link = "down"
    /\ pc = [t \in Threads |-> "idle"]
    /\ op = [t \in Threads |-> "none"]
    /\ arg = [t \in Threads |-> NoContract]
    /\ visited = [t \in Threads |-> {}]
    /\ rangeBase = [t \in Threads |-> {}]
    /\ sentBy = [t \in Threads |-> <<>>]
    /\ lastRet = NoRet
    /\ stopReturned = FALSE
    /\ delivered = <<>>
    /\ payload = [t \in Threads |-> NoData]
    /\ handled = <<>>
    /\ entrySubs = {}

\* the aggregator before its first tick, with a period of one unit
BarIdle ==
    /\ currentBar = NoBar
    /\ lastTradeTime = 0
    /\ barPeriod = 1
    /\ clock = 0
    /\ emitted = <<>>
    /\ applied = <<>>
    /\ lastTick = NoTick
    /\ nTicks = 0

Init == ConnInit /\ BarIdle

Next ==
    \/ \E t \in AppThreads : Start(t)
    \/ \E t \in AppThreads, id \in Contracts : CallSubscribe(t, id)
    \/ \E t \in Threads : Subscribe(t)
    \/ \E t \in Threads, ok \in BOOLEAN : SubscribeAnswer(t, ok)
    \/ \E t \in AppThreads, id \in Contracts : CallUnsubscribe(t, id)
    \/ \E t \in AppThreads : Unsubscribe(t)
    \/ \E t \in AppThreads, ok \in BOOLEAN : unsubscribeAnswer(t, ok)
    \/ \E t \in AppThreads : CallStop(t)
    \/ \E t \in AppThreads : StopLock(t)
    \/ \E t \in AppThreads, id \in Contracts : StopRange(t, id)
    \/ \E t \in AppThreads : StopFinish(t)
    \/ \E t \in AppThreads : IsConnected(t)
    \/ CallOnConnected(Transport)
    \/ OnConnected(Transport)
    \/ OnConnectedFor(Transport)
    \/ \E id \in Contracts : OnConnectedRange(Transport, id)
    \/ OnConnectedReturn(Transport)
    \/ CallOnDisconnected(Transport)
    \/ OnDisconnected(Transport)
    \/ \E t \in AppThreads : RaceAbort(t)

Spec == Init /\ [][Next]_vars

(***************************************************************************)
(* Inbound messages: the same operations run by one application thread and *)
(* the transport goroutine, which also delivers GatewayQuote, GatewayTrade *)
(* and GatewayDepth invocations.                                           *)
(***************************************************************************)
OneThread == {"app1"}

DispatchNext ==
    \/ \E t \in OneThread : Start(t)
    \/ \E t \in OneThread, id \in Contracts : CallSubscribe(t, id)
    \/ \E t \in OneThread \cup {Transport} : Subscribe(t)
    \/ \E t \in OneThread \cup {Transport}, ok \in BOOLEAN : SubscribeAnswer(t, ok)
    \/ \E t \in OneThread, id \in Contracts : CallUnsubscribe(t, id)
    \/ \E t \in OneThread : Unsubscribe(t)
    \/ \E t \in OneThread, ok \in BOOLEAN : unsubscribeAnswer(t, ok)
    \/ \E t \in OneThread : CallStop(t)
    \/ \E t \in OneThread : StopLock(t)
    \/ \E t \in OneThread, id \in Contracts : StopRange(t, id)
    \/ \E t \in OneThread : StopFinish(t)
    \/ \E t \in OneThread : IsConnected(t)
    \/ CallOnConnected(Transport)
    \/ OnConnected(Transport)
    \/ OnConnectedFor(Transport)
    \/ \E id \in Contracts : OnConnectedRange(Transport, id)
    \/ OnConnectedReturn(Transport)
    \/ CallOnDisconnected(Transport)
    \/ OnDisconnected(Transport)
    \/ \E kind \in MessageKinds, id \in Contracts, data \in Payloads :
          CallOnGateway(Transport, kind, id, data)
    \/ OnGatewayQuote(Transport)
    \/ OnGatewayTrade(Transport)
    \/ OnGatewayDepth(Transport)
    \/ \E t \in OneThread : RaceAbort(t)

DispatchSpec == Init /\ [][DispatchNext]_vars

(***************************************************************************)
(* The relay of inbound messages: one application thread that starts and   *)
(* stops the client, and the transport goroutine with its connects,        *)
(* disconnects and inbound invocations, which it makes one at a time; no   *)
(* contract is subscribed.                                                 *)
(***************************************************************************)
RelayNext ==
    \/ \E t \in OneThread : Start(t)
    \/ \E t \in OneThread : CallStop(t)
    \/ \E t \in OneThread : StopLock(t)
    \/ \E t \in OneThread : StopFinish(t)
    \/ \E t \in OneThread : IsConnected(t)
    \/ CallOnConnected(Transport)
    \/ OnConnected(Transport)
    \/ OnConnectedFor(Transport)
    \/ OnConnectedReturn(Transport)
    \/ CallOnDisconnected(Transport)
    \/ OnDisconnected(Transport)
    \/ \E kind \in MessageKinds, id \in Contracts, data \in Payloads :
          CallOnGateway(Transport, kind, id, data)
    \/ OnGatewayQuote(Transport)
    \/ OnGatewayTrade(Transport)
    \/ OnGatewayDepth(Transport)

RelaySpec == Init /\ [][RelayNext]_vars

(***************************************************************************)
(* Progress: a goroutine that can take a step of the method it runs takes   *)
(* it, and a goroutine that waits in c.mutex.Lock() gets the mutex when it  *)
(* is released again and again (sync.Mutex does not starve a waiter). An    *)
(* answer to a client.Send comes from the server: nothing makes it arrive,  *)
(* and nothing makes the application call a method.                        *)
(***************************************************************************)
Progress(t) ==
    \/ Subscribe(t)
    \/ Unsubscribe(t)
    \/ StopLock(t)
    \/ \E id \in Contracts : StopRange(t, id)
    \/ StopFinish(t)
    \/ OnConnected(t)
    \/ OnConnectedFor(t)
    \/ \E id \in Contracts : OnConnectedRange(t, id)
    \/ OnConnectedReturn(t)
    \/ OnDisconnected(t)

Fairness == \A t \in Threads : SF_vars(Progress(t))

LiveSpec == Init /\ [][Next]_vars /\ Fairness

(***************************************************************************)
(* The bar aggregator (MarketDataManager).                                 *)
(*                                                                         *)
(* Prices are float64 values that are whole multiples of half a price      *)
(* tick, written as the number of half ticks; a bid or an ask is a whole   *)
(* number of ticks (an even number of half ticks), so (bid+ask)/2 is       *)
(* exact. Sizes are float64 values that are whole multiples of one half,   *)
(* written as the number of halves: 3 is the size 1.5, -3 is -1.5.         *)
(* Time is counted in clock units from the zero time; barPeriod is a       *)
(* number of clock units.                                                  *)
(***************************************************************************)
\* m.contractID
OwnContract == "A"

\* a value of the data map: a float64, or anything else (missing, a string, ...)
Float(x) == [isFloat |-> TRUE, v |-> x]
NotFloat == [isFloat |-> FALSE, v |-> 0]

Bids == {2, 4}
Asks == {4, 6}
TradePrices == {1, 5}
TradeSizes == {-3, 3, 4}
QuoteData == [bid : {Float(x) : x \in Bids} \cup {NotFloat},
              ask : {Float(x) : x \in Asks} \cup {NotFloat}]
TradeData == [price : {Float(x) : x \in TradePrices} \cup {NotFloat},
              size : {Float(x) : x \in TradeSizes} \cup {NotFloat}]

\* the bid taken for the mid-price
Mid_BidOnly(bid, ask) == bid

\* (bid + ask) / 2 on float64 values
Mid(bid, ask) == (bid + ask) \div 2

\* int(size): the conversion of a float64 to int discards the fraction (it rounds
\* toward zero); size is in halves
IntOf(size) == IF size >= 0 THEN size \div 2 ELSE -((-size) \div 2)

\* Truncate that leaves the time as it is
Truncate_None(t, d) == t

\* time.Time.Truncate(d): t rounded down to a multiple of d since the zero time; t
\* itself when d <= 0
Truncate(t, d) == IF d <= 0 THEN t ELSE t - (t % d)

\* initializeNewBar that resets the prices and the volume of the current bar but keeps
\* its start: only the first bar gets its start from the time of the tick
initializeNewBar_KeepStart(t, price) ==
    [Time |-> IF currentBar = NoBar THEN Truncate(t, barPeriod) ELSE currentBar.Time,
     Open |-> price, High |-> price, Low |-> price, Close |-> price, Vol |-> 0]

\* the bar initializeNewBar(t, price) stores in m.currentBar
initializeNewBar(t, price) ==
    [Time |-> Truncate(t, barPeriod), Open |-> price, High |-> price, Low |-> price,
     Close |-> price, Vol |-> 0]

\* closeCurrentBar that hands the callback a reference to one bar object the manager
\* keeps writing to: every bar handed out so far reads as the latest one
closeCurrentBar_Shared(bar) ==
    IF bar # NoBar THEN [i \in 1..(Len(emitted) + 1) |-> bar] ELSE emitted

\* what closeCurrentBar hands to the callback: the value *m.currentBar
closeCurrentBar(bar) ==
    IF bar # NoBar THEN Append(emitted, bar) ELSE emitted

\* UpdateBar that never lowers Low
UpdateBar_NoLow(bar, price, vol) ==
    [bar EXCEPT !.High = IF price > bar.High THEN price ELSE bar.High,
                !.Close = price,
                !.Vol = bar.Vol + vol]

\* the update of High, Low and Close by a price, and of Vol by a volume
UpdateBar(bar, price, vol) ==
    [bar EXCEPT !.High = IF price > bar.High THEN price ELSE bar.High,
                !.Low = IF price < bar.Low THEN price ELSE bar.Low,
                !.Close = price,
                !.Vol = bar.Vol + vol]

\* what lastTick records of a call
Tick(kind, did, at, a, b) ==
    [kind |-> kind, did |-> did, at |-> at, a |-> a, b |-> b,
     before |-> currentBar, emittedBefore |-> Len(emitted)]

\* Untouched that goes on with the zero value a failed type assertion yields: the
\* current bar is updated with the price 0
Untouched_ZeroPrice(kind, did) ==
    /\ lastTick' = Tick(kind, did, -1, 0, 0)
    /\ currentBar' = IF currentBar = NoBar THEN NoBar ELSE UpdateBar(currentBar, 0, 0)
    /\ UNCHANGED <<lastTradeTime, clock, emitted, applied>>

\* a call that returns before it reads the clock or touches the bar
Untouched(kind, did) ==
    /\ lastTick' = Tick(kind, did, -1, 0, 0)
    /\ UNCHANGED <<currentBar, lastTradeTime, clock, emitted, applied>>

\* ApplyTick with the period test off by one: the bar is closed only when more than a
\* whole period has elapsed
ApplyTick_LateRoll(kind, now, price, vol, a, b) ==
    /\ clock' = now
    /\ IF currentBar = NoBar
       THEN /\ currentBar' = initializeNewBar(now, price)
            /\ applied' = <<[kind |-> kind, a |-> a, b |-> b]>>
            /\ lastTick' = Tick(kind, "opened", now, a, b)
            /\ UNCHANGED emitted
       ELSE LET bar == UpdateBar(currentBar, price, vol) IN
            IF now - bar.Time > barPeriod
            THEN /\ emitted' = closeCurrentBar(bar)
                 /\ currentBar' = initializeNewBar(now, price)
                 /\ applied' = <<[kind |-> kind, a |-> a, b |-> b]>>
                 /\ lastTick' = Tick(kind, "rolled", now, a, b)
            ELSE /\ currentBar' = bar
                 /\ applied' = Append(applied, [kind |-> kind, a |-> a, b |-> b])
                 /\ lastTick' = Tick(kind, "updated", now, a, b)
                 /\ UNCHANGED emitted

\* the common part of OnQuote and OnTrade once the payload is valid: open the first
\* bar, or update the current bar and, when its period has elapsed, hand it to the
\* callback and open the next bar from the same tick
ApplyTick(kind, now, price, vol, a, b) ==
    /\ clock' = now
    /\ IF currentBar = NoBar
       THEN /\ currentBar' = initializeNewBar(now, price)
            /\ applied' = <<[kind |-> kind, a |-> a, b |-> b]>>
            /\ lastTick' = Tick(kind, "opened", now, a, b)
            /\ UNCHANGED emitted
       ELSE LET bar == UpdateBar(currentBar, price, vol) IN
            IF now - bar.Time >= barPeriod
            THEN /\ emitted' = closeCurrentBar(bar)
                 /\ currentBar' = initializeNewBar(now, price)
                 /\ applied' = <<[kind |-> kind, a |-> a, b |-> b]>>
                 /\ lastTick' = Tick(kind, "rolled", now, a, b)
            ELSE /\ currentBar' = bar
                 /\ applied' = Append(applied, [kind |-> kind, a |-> a, b |-> b])
                 /\ lastTick' = Tick(kind, "updated", now, a, b)
                 /\ UNCHANGED emitted

OnQuote(contractID, data, now) ==
    /\ nTicks < MaxTicks
    /\ nTicks' = nTicks + 1
    /\ IF contractID # OwnContract
       THEN Untouched("Quote", "ignored")
       ELSE IF ~data.bid.isFloat \/ ~data.ask.isFloat
       THEN Untouched("Quote", "dropped")
       ELSE /\ ApplyTick("Quote", now, Mid(data.bid.v, data.ask.v), 0,
                         data.bid.v, data.ask.v)
            /\ UNCHANGED lastTradeTime
    /\ UNCHANGED <<barPeriod, connVars>>

OnTrade(contractID, data, now) ==
    /\ nTicks < MaxTicks
    /\ nTicks' = nTicks + 1
    /\ IF contractID # OwnContract
       THEN Untouched("Trade", "ignored")
       ELSE IF ~data.price.isFloat \/ ~data.size.isFloat
       THEN Untouched("Trade", "dropped")
       ELSE /\ lastTradeTime' = now
            /\ ApplyTick("Trade", now, data.price.v, IntOf(data.size.v),
                         data.price.v, data.size.v)
    /\ UNCHANGED <<barPeriod, connVars>>

\* OnDepth that takes a depth event for the end of the period: the current bar is
\* handed to the callback and discarded
OnDepth_ClosesBar(contractID) ==
    /\ nTicks < MaxTicks
    /\ nTicks' = nTicks + 1
    /\ lastTick' = Tick("Depth", "ignored", -1, 0, 0)
    /\ emitted' = closeCurrentBar(currentBar)
    /\ currentBar' = NoBar
    /\ UNCHANGED <<lastTradeTime, clock, applied, barPeriod, connVars>>

OnDepth(contractID) ==
    /\ nTicks < MaxTicks
    /\ nTicks' = nTicks + 1
    /\ Untouched("Depth", "ignored")
    /\ UNCHANGED <<barPeriod, connVars>>

\* NewMarketDataManager(contractID, barPeriodMinutes, callback): no current bar, the
\* zero lastTradeTime, a positive period
BarInit ==
    /\ currentBar = NoBar
    /\ lastTradeTime = 0
    /\ barPeriod \in 1..MaxPeriod
    /\ clock = 0
    /\ emitted = <<>>
    /\ applied = <<>>
    /\ lastTick = NoTick
    /\ nTicks = 0

\* time.Now() does not go backwards from one call to the next
BarNext ==
    \/ \E contractID \in Contracts, data \in QuoteData, now \in clock..MaxTime :
          OnQuote(contractID, data, now)
    \/ \E contractID \in Contracts, data \in TradeData, now \in clock..MaxTime :
          OnTrade(contractID, data, now)
    \/ \E contractID \in Contracts : OnDepth(contractID)

\* one aggregator, beside a connection manager that does nothing
BarStart == ConnInit /\ BarInit

BarSpec == BarStart /\ [][BarNext]_vars

(***************************************************************************)
(* Properties of the connection manager.                                   *)
(***************************************************************************)
IsPrefix(s, t) == Len(s) <= Len(t) /\ \A i \in 1..Len(s) : s[i] = t[i]

\* C1: a Subscribe that finds the manager not connected returns the "not connected"
\* error, has sent no registration, and leaves isConnected and the subscription set
\* as it found them; no thread waits for the answer to a registration it sent while
\* the manager was not connected.
C1_SubscribeNotConnected ==
    /\ (lastRet.call = "Subscribe" /\ ~lastRet.connBefore) =>
          /\ lastRet.result = "not connected"
          /\ lastRet.sent = <<>>
          /\ subscriptions = lastRet.subsBefore
          /\ isConnected = lastRet.connBefore
    /\ \A t \in Threads : pc[t] = "Subscribe_wait" => isConnected

\* a Subscribe of an application thread has just failed with "not connected" while
\* another contract was subscribed
C1_Witness ==
    /\ lastRet.call = "Subscribe"
    /\ lastRet.by = "Subscribe"
    /\ lastRet.result = "not connected"
    /\ lastRet.subsBefore # {}
    /\ lastRet.id \notin lastRet.subsBefore

\* C2: a Subscribe sends the quotes, trades and depth registrations in that order;
\* it returns nil exactly when the three were answered without error, and then the
\* contract is in the subscription set; when one of them failed the set is the one
\* the call found.
C2_SubscribeAllOrNothing ==
    lastRet.call = "Subscribe" =>
        /\ IsPrefix(lastRet.sent, <<"SubscribeContractQuotes", "SubscribeContractTrades",
                                    "SubscribeContractMarketDepth">>)
        /\ lastRet.acks <= Len(lastRet.sent)
        /\ (lastRet.result = "ok") <=> (lastRet.acks = 3)
        /\ subscriptions = IF lastRet.acks = 3
                           THEN lastRet.subsBefore \cup {lastRet.id}
                           ELSE lastRet.subsBefore

\* a Subscribe has just failed on its third registration and its contract is not in
\* the subscription set
C2_Witness ==
    /\ lastRet.call = "Subscribe"
    /\ lastRet.by = "Subscribe"
    /\ Len(lastRet.sent) = 3
    /\ lastRet.acks = 2
    /\ lastRet.result # "ok"
    /\ lastRet.id \notin subscriptions

\* C3: when Unsubscribe(id) has returned, with or without an error, id is not in the
\* subscription set.
C3_UnsubscribeAlwaysClears ==
    (lastRet.call = "unsubscribe" /\ lastRet.by = "Unsubscribe") =>
        lastRet.id \notin subscriptions

\* C4: once Stop has returned the manager is never connected again.
C4_StoppedIsAbsorbing ==
    stopReturned => ~isConnected

\* C5: once Stop has returned no method of the handler is called.
C5_NoDispatchAfterStop ==
    [][stopReturned => handled' = handled]_vars

\* C6: when Stop returns it has attempted the unsubscription of every contract it
\* found in the subscription set, and the subscription set is empty.
C6_StopClearsAll ==
    lastRet.call = "Stop" =>
        /\ lastRet.subsBefore \subseteq lastRet.ids
        /\ subscriptions = {}

\* C7: when OnConnected returns, a Subscribe was issued for every contract that was
\* in the subscription set when it set the manager connected.
C7_ResubscribesAll ==
    lastRet.call = "OnConnected" => lastRet.entry \subseteq lastRet.ids

\* C8: OnDisconnected leaves the subscription set as it found it, and so does a
\* Subscribe issued by the resubscription loop that fails: a contract that was in
\* the set is still in it.
C8_SubscriptionsPersist ==
    /\ lastRet.call = "OnDisconnected" =>
          subscriptions = lastRet.subsBefore
    /\ (lastRet.call = "Subscribe" /\ lastRet.by = "OnConnected"
          /\ lastRet.result # "ok") =>
          /\ subscriptions = lastRet.subsBefore
          /\ lastRet.id \in lastRet.subsBefore => lastRet.id \in subscriptions

\* after a reconnect the resubscription of a contract has just failed and the
\* contract is still in the subscription set
C8_Witness ==
    /\ reconnectCount >= 1
    /\ lastRet.call = "Subscribe"
    /\ lastRet.by = "OnConnected"
    /\ lastRet.result # "ok"
    /\ lastRet.id \in subscriptions

(***************************************************************************)
(* Properties of the bar aggregator.                                       *)
(***************************************************************************)
RECURSIVE MaxOf(_), MinOf(_), SumOf(_)
MaxOf(q) == IF Len(q) = 1 THEN q[1]
            ELSE LET m == MaxOf(Tail(q)) IN IF q[1] > m THEN q[1] ELSE m
MinOf(q) == IF Len(q) = 1 THEN q[1]
            ELSE LET m == MinOf(Tail(q)) IN IF q[1] < m THEN q[1] ELSE m
SumOf(q) == IF q = <<>> THEN 0 ELSE q[1] + SumOf(Tail(q))

\* twice the mid-price of the i-th tick applied to the current bar, a quote
TwiceMid(i) == applied[i].a + applied[i].b

\* C9: while every tick applied to the current bar is a quote, the bar's open is the
\* mid-price (bid+ask)/2 of the first of them, its close the mid-price of the last,
\* its high the greatest and its low the least of their mid-prices.
C9_QuoteBar ==
    (currentBar # NoBar /\ \A i \in 1..Len(applied) : applied[i].kind = "Quote") =>
        LET twice == [i \in 1..Len(applied) |-> TwiceMid(i)] IN
        /\ 2 * currentBar.Open = twice[1]
        /\ 2 * currentBar.Close = twice[Len(applied)]
        /\ 2 * currentBar.High = MaxOf(twice)
        /\ 2 * currentBar.Low = MinOf(twice)

\* three quotes were applied to the current bar, the second with the highest and the
\* third with the lowest mid-price
C9_Witness ==
    /\ currentBar # NoBar
    /\ Len(applied) = 3
    /\ \A i \in 1..3 : applied[i].kind = "Quote"
    /\ TwiceMid(2) > TwiceMid(1)
    /\ TwiceMid(3) < TwiceMid(1)
    /\ lastTick.did = "updated"

\* the integer part of a size given in halves, rounded down
Floor(size) == size \div 2

\* C10: the volume of the current bar is the sum of the floored sizes of the trades
\* applied to it, the trade that opened it included; quotes add nothing.
C10_VolumeIsSumOfTrades ==
    currentBar # NoBar =>
        currentBar.Vol =
            SumOf([i \in 1..Len(applied) |->
                      IF applied[i].kind = "Trade" THEN Floor(applied[i].b) ELSE 0])

\* twice the price the last call applied: the mid-price of a quote, the price of a trade
TwicePrice == IF lastTick.kind = "Quote" THEN lastTick.a + lastTick.b ELSE 2 * lastTick.a

\* the last call was a valid tick that found a current bar
TickOnBar ==
    /\ lastTick.did \in {"updated", "rolled"}
    /\ lastTick.before # NoBar

\* C11: a valid tick that finds a current bar whose period has elapsed (the tick's time
\* minus the bar's start is at least the period) hands exactly one bar to the callback:
\* the bar it found with its high, low and close updated by the tick's price and, for a
\* trade of non-negative size, its volume raised by the whole part of the size; and it
\* opens a current bar whose four prices are the tick's price and whose start is the
\* multiple of the period at or before the tick's time. A valid tick that arrives
\* before the period has elapsed hands no bar to the callback.
C11_RollOver ==
    TickOnBar =>
        LET old == lastTick.before
            out == emitted[Len(emitted)]
        IN  IF lastTick.at - old.Time >= barPeriod
            THEN /\ Len(emitted) = lastTick.emittedBefore + 1
                 /\ out.Time = old.Time
                 /\ out.Open = old.Open
                 /\ 2 * out.Close = TwicePrice
                 /\ 2 * out.High = IF TwicePrice > 2 * old.High THEN TwicePrice
                                   ELSE 2 * old.High
                 /\ 2 * out.Low = IF TwicePrice < 2 * old.Low THEN TwicePrice
                                  ELSE 2 * old.Low
                 /\ lastTick.kind = "Quote" => out.Vol = old.Vol
                 /\ (lastTick.kind = "Trade" /\ lastTick.b >= 0) =>
                        out.Vol = old.Vol + lastTick.b \div 2
                 /\ 2 * currentBar.Open = TwicePrice
                 /\ currentBar.High = currentBar.Open
                 /\ currentBar.Low = currentBar.Open
                 /\ currentBar.Close = currentBar.Open
                 /\ currentBar.Time % barPeriod = 0
                 /\ currentBar.Time <= lastTick.at
                 /\ lastTick.at < currentBar.Time + barPeriod
            ELSE /\ Len(emitted) = lastTick.emittedBefore
                 /\ currentBar.Time = old.Time

\* a trade has just arrived exactly one period after the start of a bar that held
\* volume, and the bar was handed to the callback
C11_Witness ==
    /\ TickOnBar
    /\ lastTick.kind = "Trade"
    /\ lastTick.b > 0
    /\ lastTick.before.Vol > 0
    /\ lastTick.at - lastTick.before.Time = barPeriod
    /\ Len(emitted) = lastTick.emittedBefore + 1

\* the last call opened a bar: the first one, or the one that follows a bar it closed
BarOpened == lastTick.did \in {"opened", "rolled"}

\* C12: a bar opened by a tick that arrives at time T starts at the largest multiple of
\* the period P that does not exceed T: its start is a multiple of P, at or before T,
\* and less than P before T.
C12_BarAlignment ==
    BarOpened =>
        /\ currentBar.Time % barPeriod = 0
        /\ currentBar.Time <= lastTick.at
        /\ lastTick.at < currentBar.Time + barPeriod
        /\ \A k \in 0..MaxTime :
              (k % barPeriod = 0 /\ k <= lastTick.at) => k <= currentBar.Time

\* a bar has just been opened by a tick that arrived strictly inside a period, after
\* the first period
C12_Witness ==
    /\ BarOpened
    /\ barPeriod > 1
    /\ lastTick.at % barPeriod # 0
    /\ currentBar.Time > 0

\* low <= min(open, close) and max(open, close) <= high
Ordered(bar) ==
    /\ bar.Low <= bar.Open
    /\ bar.Low <= bar.Close
    /\ bar.Open <= bar.High
    /\ bar.Close <= bar.High

\* C13: the current bar and every bar handed to the callback have
\* low <= min(open, close) <= max(open, close) <= high.
C13_BarOrdered ==
    /\ currentBar # NoBar => Ordered(currentBar)
    /\ \A i \in 1..Len(emitted) : Ordered(emitted[i])

\* a bar was handed to the callback whose close is its low, below its open, and whose
\* high is above its open; the current bar is the one opened by the same tick
C13_Witness ==
    /\ Len(emitted) >= 1
    /\ emitted[1].Low < emitted[1].Open
    /\ emitted[1].Close = emitted[1].Low
    /\ emitted[1].Open < emitted[1].High
    /\ lastTick.did = "rolled"

C15_MalformedDropped ==
    lastTick.did = "dropped" =>
        /\ currentBar = lastTick.before
        /\ Len(emitted) = lastTick.emittedBefore

\* a malformed trade has just been dropped while a bar with volume was open and a bar
\* had already been handed to the callback
C15_Witness ==
    /\ lastTick.did = "dropped"
    /\ lastTick.kind = "Trade"
    /\ lastTick.before # NoBar
    /\ Len(emitted) >= 1

\* C16: a quote or a trade for another contract than the aggregator's own, and any
\* depth event, leaves the current bar as it was and hands no bar to the callback.
C16_ForeignIgnored ==
    (lastTick.did = "ignored" \/ lastTick.kind = "Depth") =>
        /\ currentBar = lastTick.before
        /\ Len(emitted) = lastTick.emittedBefore

\* a trade for another contract has just been ignored while a bar was open and a bar
\* had already been handed to the callback
C16_Witness ==
    /\ lastTick.did = "ignored"
    /\ lastTick.kind = "Trade"
    /\ lastTick.before # NoBar
    /\ currentBar # NoBar
    /\ Len(emitted) >= 1

\* C17: a bar handed to the callback is a value of its own: no later step changes a
\* field of a bar that was handed out, and the bar handed out by a roll-over keeps the
\* start and the open of the bar that was closed, whatever the tick seeds the next
\* bar with.
C17_EmittedSnapshot ==
    [][/\ Len(emitted') >= Len(emitted)
       /\ \A i \in 1..Len(emitted) : emitted'[i] = emitted[i]
       /\ Len(emitted') > Len(emitted) =>
             /\ emitted'[Len(emitted')].Time = currentBar.Time
             /\ emitted'[Len(emitted')].Open = currentBar.Open]_vars

\* a tick has just updated the bar that was opened by a roll-over, and the bar handed
\* out by that roll-over differs from the current bar in every field a tick writes
C17_Witness ==
    /\ Len(emitted) >= 1
    /\ lastTick.did = "updated"
    /\ currentBar.Time # emitted[Len(emitted)].Time
    /\ currentBar.Close # emitted[Len(emitted)].Close
    /\ currentBar.High # emitted[Len(emitted)].High

(***************************************************************************)
(* Properties of the calls that wait for the server.                       *)
(***************************************************************************)
\* the thread waits for the answer to a registration or a deregistration it sent
Waiting(t) == pc[t] \in {"Subscribe_wait", "unsubscribe_wait"}

\* C18: a Subscribe or an Unsubscribe that waits for the answer to a request returns
\* in the end, whether or not the server ever answers.
C18_CallsReturn ==
    \A t \in Threads : Waiting(t) ~> ~Waiting(t)

\* C19: a Stop that was called returns in the end, also when another call waits for an
\* answer the server never gives.
C19_StopCompletes ==
    \A t \in AppThreads : (pc[t] = "Stop") ~> stopReturned

(***************************************************************************)
(* Properties of the relay of inbound messages.                            *)
(***************************************************************************)
\* the transport is inside one of the three OnGateway methods
Relaying == pc[Transport] \in {"OnGateway" \o kind : kind \in MessageKinds}

\* the messages of a sequence that are for one contract
ForContract(q, c) == SelectSeq(q, LAMBDA m : m.contractID = c)

\* C20: the calls made on the handler are the messages the transport delivered, each
\* with its kind, contract and data, in the order of delivery: the calls are a prefix
\* of the deliveries (for every contract too), at most the delivery in progress has no
\* call yet, and when the transport is not inside an OnGateway method every delivery
\* has its call.
C20_ExactlyOnceInOrder ==
    /\ IsPrefix(handled, delivered)
    /\ \A c \in Contracts : IsPrefix(ForContract(handled, c), ForContract(delivered, c))
    /\ Len(delivered) <= Len(handled) + 1
    /\ ~Relaying => handled = delivered

\* after a reconnect two messages with different data for the same contract were
\* delivered, a trade then a quote, and both calls were made on the handler
C20_Witness ==
    /\ reconnectCount >= 1
    /\ isConnected
    /\ Len(handled) = 2
    /\ handled[1].kind = "Trade"
    /\ handled[2].kind = "Quote"
    /\ handled[1].contractID = handled[2].contractID
    /\ handled[1].data # handled[2].data
    /\ ~Relaying

(***************************************************************************)
(* Properties of the locking.                                              *)
(***************************************************************************)
\* the resubscription loop of OnConnected is reading c.subscriptions: its range has
\* begun and has not ended (the Subscribe calls of its body included)
Resubscribing ==
    /\ op[Transport] = "OnConnected"
    /\ pc[Transport] \in {"OnConnected_range", "Subscribe", "Subscribe_wait"}

\* C21: the subscription set is read and written under c.mutex only, the iteration of
\* the resubscription loop included: while that loop is reading the set, no step of
\* another thread changes the set.
C21_LoopUnderLock ==
    [][(Resubscribing /\ pc'[Transport] = pc[Transport]
          /\ sentBy'[Transport] = sentBy[Transport])
        => subscriptions' = subscriptions]_vars

\* the requests thread t has sent in the call it is in, the call not yet returned
InFlight(t) == sentBy[t] # <<>>

\* C22: the registration messages of one Subscribe go out one after the other, in the
\* order quotes, trades, market depth, in one critical section of c.mutex: a thread
\* with requests of an unfinished call holds the mutex, so no other thread has any,
\* and the messages of two concurrent calls never interleave.
C22_NoInterleaving ==
    \A t \in Threads :
        InFlight(t) =>
            /\ mutex = t
            /\ IsPrefix(sentBy[t], SubscribeMethods)
                 \/ IsPrefix(sentBy[t], UnsubscribeMethods)
            /\ \A u \in Threads \ {t} : ~InFlight(u)

\* a Subscribe has sent its three registrations while a Subscribe or an Unsubscribe
\* called on another thread stands at c.mutex.Lock() and has sent nothing
C22_Witness ==
    \E t, u \in Threads :
        /\ t # u
        /\ pc[t] = "Subscribe_wait"
        /\ sentBy[t] = SubscribeMethods
        /\ pc[u] \in {"Subscribe", "Unsubscribe"}
        /\ isConnected

(***************************************************************************)
(* Properties of the bar a tick opens, and of the sequence of bars.        *)
(***************************************************************************)
\* C23: the bar a tick opens has its four prices equal to the tick's price; its volume
\* is 0 when the tick is a quote, and the (whole part of the) size of the trade when
\* the tick is a trade.
C23_OpeningBar ==
    BarOpened =>
        /\ 2 * currentBar.Open = TwicePrice
        /\ currentBar.High = currentBar.Open
        /\ currentBar.Low = currentBar.Open
        /\ currentBar.Close = currentBar.Open
        /\ lastTick.kind = "Quote" => currentBar.Vol = 0
        /\ (lastTick.kind = "Trade" /\ lastTick.b >= 0) =>
               currentBar.Vol = Floor(lastTick.b)

\* a valid quote or trade has been processed
ValidTickSeen == applied # <<>>

\* the starts of the bars handed to the callback so far, with the current bar behind
\* them: each is a multiple of the period and at least one period after the one before
BarStartsAdvance ==
    LET starts == [i \in 1..Len(emitted) |-> emitted[i].Time] \o
                  (IF currentBar = NoBar THEN <<>> ELSE <<currentBar.Time>>)
    IN  /\ \A i \in 1..Len(starts) : starts[i] % barPeriod = 0
        /\ \A i \in 1..(Len(starts) - 1) : starts[i + 1] >= starts[i] + barPeriod

\* C24: with arrival times that do not go backwards, the bars handed to the callback
\* have strictly increasing starts, each a multiple of the period; the start of the
\* current bar is at least one period after the start of the last bar handed out; and
\* from the first valid tick on there is a current bar in every state.
C24_BarSequence ==
    /\ [](BarStartsAdvance)
    /\ [](\A i, j \in 1..Len(emitted) : i < j => emitted[i].Time < emitted[j].Time)
    /\ []((ValidTickSeen \/ emitted # <<>>) => currentBar # NoBar)
    /\ [][currentBar # NoBar => currentBar' # NoBar]_vars

\* two bars have been handed to the callback and a third one is current, opened by a
\* tick that arrived inside its period, the period being longer than one time unit
C24_Witness ==
    /\ Len(emitted) = 2
    /\ emitted[2].Time > emitted[1].Time
    /\ currentBar # NoBar
    /\ currentBar.Time >= emitted[2].Time + barPeriod
    /\ lastTick.did = "rolled"
    /\ lastTick.at > currentBar.Time
    /\ barPeriod > 1

====
